---- MODULE Spec2Model ----
(***************************************************************************)
(* The notification service's NATS messenger (infrastructure/messaging.py) *)
(* and the HTTP endpoint that bridges a synchronous caller to it           *)
(* (infrastructure/web/controllers.py).                                    *)
(*                                                                         *)
(* The nats client object `nc` and the broker behind it are the            *)
(* environment: a transport call succeeds, loses the message or raises.    *)
(* Business handlers are inputs: a handler returns a value or raises.      *)
(* Python values are strings here: "None" is None, "{}" the empty dict,    *)
(* "d1", "d2", "d3" non-empty JSON objects.  A reply subject of "" is the    *)
(* transport's "no reply".                                                 *)
(***************************************************************************)
EXTENDS Integers, Sequences, FiniteSets, TLC

(* ------------------------------ bounds -------------------------------- *)
\* subscriptions held by the client at one time
MaxSubs == 2
\* published messages the broker holds for the local subscriptions at one time
MaxNet == 1
\* the event loop's clock (loop.time()) stops counting here
MaxClock == 1

(* --------------------------- program values --------------------------- *)
\* os.getenv('SERVICE_NAME', ...) of the process
ServiceName == "notification-service"
Subjects == {"user.get", "notification.send"}
Inboxes == {"_INBOX.1", "_INBOX.2", "_INBOX.3", "_INBOX.4", "_INBOX.5"}
\* payloads given to publish_message / request_response
Payloads == {"d1"}
\* what a business handler can return
Returns == {"None", "{}", "d1", "d2"}
\* timeouts given to request_response, in clock ticks
Timeouts == {1}
\* request_response's default timeout, the one get_user_info uses (seconds)
RequestTimeout == 5
\* thread.join(timeout=6) in request_user_info (seconds)
JoinTimeout == 6
\* user ids asked of GET /request-user-info/<user_id>; the request payload
\* {'user_id': user_id} is named by its user id
UserIds == {"uid42"}

\* Python truthiness of a value (None and the empty dict are falsy)
Truthy(v) == v \notin {"None", "{}", ""}

(* ------------------------------ the codec ----------------------------- *)
\* A Python dict is the sequence of its members in insertion order; JSON
\* text is a record: an object with its members as written (a key may
\* repeat, unknown keys may occur), another JSON value, or bytes that are
\* no JSON at all.
Member(k, v) == [key |-> k, val |-> v]

\* Faulty variant: an envelope that does not carry the time of its making
EnvelopeUnstamped(sender, timestamp, data) ==
    << Member("sender", sender), Member("timestamp", 0), Member("data", data) >>

\* lines 55-59, 102-106, 137-141: the envelope dict
Envelope(sender, timestamp, data) ==
    << Member("sender", sender), Member("timestamp", timestamp), Member("data", data) >>

\* json.dumps(envelope).encode()
dumps(d) == [kind |-> "object", members |-> d]

\* json.loads(bytes.decode()): raises on bytes that are no JSON
loads(bytes) ==
    IF bytes.kind = "garbage" THEN [exc |-> TRUE]
    ELSE IF bytes.kind = "object" THEN [exc |-> FALSE, isdict |-> TRUE, members |-> bytes.members]
    ELSE [exc |-> FALSE, isdict |-> FALSE, members |-> << >>]

\* Faulty variant: dict.get(key), which yields None for a key that is absent
DictGetNone(members, key, default) ==
    LET at == {i \in 1..Len(members) : members[i].key = key}
    IN  IF at = {} THEN "None"
        ELSE members[CHOOSE i \in at : \A j \in at : j <= i].val

\* dict.get(key, default): the last member written under the key wins
DictGet(members, key, default) ==
    LET at == {i \in 1..Len(members) : members[i].key = key}
    IN  IF at = {} THEN default
        ELSE members[CHOOSE i \in at : \A j \in at : j <= i].val

\* Faulty variant: a decoder that falls back to the defaults on any bytes
DecodeEnvelopeLenient(bytes) ==
    LET e == loads(bytes)
        m == IF e.exc THEN << >> ELSE e.members
    IN  [exc |-> FALSE,
         sender |-> DictGet(m, "sender", "unknown"),
         timestamp |-> DictGet(m, "timestamp", 0),
         data |-> DictGet(m, "data", "{}")]

\* lines 88-93: json.loads, then three .get with their defaults; .get on a
\* JSON value that is no object raises AttributeError
DecodeEnvelope(bytes) ==
    LET e == loads(bytes)
    IN  IF e.exc \/ ~e.isdict THEN [exc |-> TRUE]
        ELSE [exc |-> FALSE,
              sender |-> DictGet(e.members, "sender", "unknown"),
              timestamp |-> DictGet(e.members, "timestamp", 0),
              data |-> DictGet(e.members, "data", "{}")]

\* lines 149-152: json.loads of the reply, then .get('data', {})
ResponseData(bytes) ==
    LET e == loads(bytes)
    IN  IF e.exc \/ ~e.isdict THEN [exc |-> TRUE]
        ELSE [exc |-> FALSE, data |-> DictGet(e.members, "data", "{}")]

(* ------------------------------- state -------------------------------- *)
VARIABLES
    is_connected,   \* messenger.nc.is_connected
    nc_loop,        \* the event loop messenger.nc was connected on
    brokerUp,       \* the broker is reachable (environment)
    subs,           \* the client's subscriptions, in registration order
    net,            \* messages the broker holds for the local subscriptions
    req,            \* the request_response call in progress, if any
    clock,          \* asyncio.get_event_loop().time()
    last,           \* what the operation that has just finished did
    failures,       \* a handler invocation has raised before now
    http,           \* the request_user_info call: the HTTP worker thread
    bg,             \* its background thread (run_async)
    result_queue    \* its queue.Queue()

mvars == << is_connected, nc_loop, brokerUp, subs, net, req, clock, last, failures >>
bvars == << http, bg, result_queue >>
vars == << is_connected, nc_loop, brokerUp, subs, net, req, clock, last, failures,
           http, bg, result_queue >>

IdleReq == [pc |-> "idle", owner |-> "", inbox |-> "", remaining |-> 0, reply |-> << >>]

\* the record of one operation: the arguments it was called with, the
\* transport calls it made, in order, what it returned, whether an exception
\* left it; and for a run of the subscription wrapper, what it did with the
\* message
OpRecord(op, before, calls, ret, raised) ==
    [op |-> op, connectedBefore |-> before, calls |-> calls, ret |-> ret,
     raised |-> raised, delivery |-> << >>, reply |-> << >>, args |-> << >>,
     caller |-> "main", loop |-> "none"]

\* no operation of the messenger has just finished
NoOp == OpRecord("none", FALSE, << >>, "None", FALSE)

(* --------------------------- the transport ---------------------------- *)
\* nc.connect(url): succeeds when the broker is reachable
ConnectOutcomes == IF brokerUp THEN {"ok"} ELSE {"raise"}

\* whether a connected client whose new connect attempt failed still counts
\* itself connected is the transport's business: both can happen
StaleChoices(before, out) == IF before /\ out = "raise" THEN BOOLEAN ELSE {FALSE}

\* nc.publish / nc.request on a client that is not connected raises; on a
\* connected client the message reaches the broker, or is lost in the
\* client's buffer when the broker has gone, or the call raises
SendOutcomes(connected) ==
    IF ~connected THEN {"raise"}
    ELSE IF brokerUp THEN {"ok", "raise"} ELSE {"lost", "raise"}

\* nc.subscribe(subject, cb)
SubscribeOutcomes(connected) == IF connected THEN {"ok", "raise"} ELSE {"raise"}

\* the broker's fan-out: the message goes to every subscription on the
\* subject (`to`, in registration order); with none it is simply undelivered
Fanout(subject, bytes, reply) ==
    LET ids == SelectSeq([i \in 1..Len(subs) |-> i], LAMBDA i : subs[i].subject = subject)
    IN  IF ids = << >> THEN << >>
        ELSE << [subject |-> subject, data |-> bytes, reply |-> reply, to |-> ids] >>

\* a message published to the inbox of the waiting request is its reply; only
\* the first reply is kept (nc.request returns the first)
ReqAfterPublish(r, subject, bytes, hret) ==
    IF r.pc = "waiting" /\ r.inbox = subject /\ r.reply = << >>
    THEN [r EXCEPT !.reply = << [data |-> bytes, hret |-> hret] >>]
    ELSE r

\* a fresh inbox name for nc.request
FreshInbox == CHOOSE n \in Inboxes : \A i \in 1..Len(net) : net[i].reply # n

(* ---------------------------- NATSMessenger --------------------------- *)
\* Faulty variant: a connect that reports success whatever the transport did
connect_reports_true(before, out, stale) ==
    [connected |-> out = "ok" \/ (before /\ stale), ret |-> "True", raised |-> FALSE,
     calls |-> << [call |-> "connect", ok |-> out = "ok"] >>]

\* lines 25-33: connect(): the transport's connect inside try/except; `out`
\* is the transport's outcome, `stale` whether a client that was connected
\* still counts itself connected after a failed new attempt
connect(before, out, stale) ==
    IF out = "ok"
    THEN [connected |-> TRUE, ret |-> "True", raised |-> FALSE,
          calls |-> << [call |-> "connect", ok |-> TRUE] >>]
    ELSE [connected |-> before /\ stale, ret |-> "False", raised |-> FALSE,
          calls |-> << [call |-> "connect", ok |-> FALSE] >>]

\* Faulty variant: connect on every use, connected or not
LazyConnectAlways(before, out) == connect(before, out, FALSE)

\* lines 51-52, 82-83, 133-134: if not self.nc.is_connected: await self.connect()
LazyConnect(before, out) ==
    IF ~before THEN connect(before, out, FALSE)
    ELSE [connected |-> before, ret |-> "", raised |-> FALSE, calls |-> << >>]

\* Faulty variant: the reply_to argument handed on as it is
PublishReplyAsGiven(reply_to) == reply_to

\* lines 63-66: if reply_to: publish(..., reply=reply_to) else publish(...)
PublishReply(reply_to) == IF Truthy(reply_to) THEN reply_to ELSE ""

\* Faulty variant: publish_message without its except clause
publish_message_reraise(exc) == exc

\* lines 70-71: except Exception: logger.error(...) - nothing leaves publish_message
publish_message_except(exc) == FALSE

\* Faulty variant: subscribe_to_subject without its except clause
subscribe_to_subject_reraise(exc) == exc

\* lines 117-118: except Exception: logger.error(...)
subscribe_to_subject_except(exc) == FALSE

\* Faulty variant: request_response without its except clause
request_response_reraise(exc) == [ret |-> "", raised |-> exc]

\* lines 154-156: except Exception: logger.error(...); return None
request_response_except(exc) == [ret |-> "None", raised |-> FALSE]

\* Faulty variant: the wrapper without its except clause
message_handler_reraise(exc) == exc

\* lines 110-111: except Exception: logger.error(...)
message_handler_except(exc) == FALSE

\* Faulty variant: reply whenever the handler returned something
ReplyIfResponse(reply, response) == Truthy(response)

\* line 101: if msg.reply and response
ReplyExpected(reply, response) == Truthy(reply) /\ Truthy(response)

\* Faulty variant: the reply value under another key of the envelope
ReplyBytesOtherKey(response, now) ==
    dumps(<< Member("sender", ServiceName), Member("timestamp", now), Member("response", response) >>)

\* lines 102-107: the reply envelope, encoded
ReplyBytes(response, now) == dumps(Envelope(ServiceName, now, response))

\* a business handler returns a value or raises
Handlers == {"handler"}
HandlerOutcomes(handler) ==
    {[raises |-> TRUE, value |-> "None"]} \cup {[raises |-> FALSE, value |-> v] : v \in Returns}

\* lines 85-111: the subscription wrapper on one message; h is what the
\* handler does when invoked, pout what the transport does with a reply
message_handler(msg, h, now, pout) ==
    LET dec == DecodeEnvelope(msg.data)
        none == [decoded |-> FALSE, called |-> FALSE, args |-> << >>, handlerRaised |-> FALSE,
                 response |-> "None", calls |-> << >>, raised |-> FALSE]
    IN  IF dec.exc
        THEN [none EXCEPT !.raised = message_handler_except(TRUE)]
        ELSE LET args == << [data |-> dec.data, sender |-> dec.sender, timestamp |-> dec.timestamp] >>
                 called == [none EXCEPT !.decoded = TRUE, !.called = TRUE, !.args = args]
             IN  IF h.raises
                 THEN [called EXCEPT !.handlerRaised = TRUE, !.raised = message_handler_except(TRUE)]
                 ELSE IF ReplyExpected(msg.reply, h.value)
                 THEN [called EXCEPT !.response = h.value,
                          !.calls = << [call |-> "publish", subject |-> msg.reply,
                                        data |-> ReplyBytes(h.value, now), reply |-> "",
                                        ok |-> pout # "raise"] >>,
                          !.raised = message_handler_except(pout = "raise")]
                 ELSE [called EXCEPT !.response = h.value]

\* the caller of a request_response call gets its return value: the event
\* loop's own caller reads it from `last`, the bridge's background thread
\* (get_user_async, controllers.py line 115) keeps it as its result
Returned(owner, ret) ==
    IF owner = "bridge" THEN [bg EXCEPT !.pc = "returned", !.result = ret] ELSE bg

\* a fire-and-forget thread of an endpoint (controllers.py lines 42-46,
\* 83-87) ends when its publish_message call has returned; any other caller
\* of publish_message leaves the threads alone
Published(b) == IF b.pc = "sending" THEN [b EXCEPT !.pc = "finished"] ELSE b

\* the calls include a connect that the transport accepted
Connected(calls) == \E i \in 1..Len(calls) : calls[i].call = "connect" /\ calls[i].ok

\* lines 25-33 (line 28): nc.connect() opens the connection on the event loop
\* that runs the caller ("main": the messaging loop of lines 258-262,
\* "thread": the loop of an endpoint's thread); a client that did not connect
\* anew stays on the loop it was connected on; no connection, no loop
ConnLoop(after, calls, caller) ==
    IF ~after THEN "none" ELSE IF Connected(calls) THEN caller ELSE nc_loop

\* controllers.py lines 46, 87, 116: loop.close() at the end of the thread's
\* function; the client is not disconnected, so it stays marked as connected
LoopClosed(l) == IF l = "thread" THEN "closed" ELSE l

\* lines 25-33
connect_call ==
    \E out \in ConnectOutcomes :
      \E stale \in StaleChoices(is_connected, out) :
        LET c == connect(is_connected, out, stale)
        IN  /\ is_connected' = c.connected
            /\ nc_loop' = ConnLoop(c.connected, c.calls, "main")
            /\ last' = OpRecord("connect", is_connected, c.calls, c.ret, c.raised)
            /\ UNCHANGED << brokerUp, subs, net, req, clock, failures, http, bg, result_queue >>

\* Faulty variant: close whatever the state of the connection
disconnect_always(connected) == TRUE

\* line 37: if self.nc.is_connected
disconnect_guard(connected) == connected

\* lines 35-39: close() ends the connection and with it the subscriptions
disconnect ==
    /\ IF disconnect_guard(is_connected)
       THEN /\ is_connected' = FALSE
            /\ nc_loop' = "none"
            /\ subs' = << >>
            /\ net' = << >>
            /\ last' = OpRecord("disconnect", is_connected, << [call |-> "close"] >>, "None", FALSE)
       ELSE /\ UNCHANGED << is_connected, nc_loop, subs, net >>
            /\ last' = OpRecord("disconnect", is_connected, << >>, "None", FALSE)
    /\ UNCHANGED << brokerUp, req, clock, failures, http, bg, result_queue >>

\* lines 41-71
publish_message(subject, message, reply_to) ==
    \E cout \in ConnectOutcomes :
        LET lc == LazyConnect(is_connected, cout)
            bytes == dumps(Envelope(ServiceName, clock, message))
        IN  \E pout \in SendOutcomes(lc.connected) :
                LET call == [call |-> "publish", subject |-> subject, data |-> bytes,
                             reply |-> PublishReply(reply_to), ok |-> pout # "raise"]
                    sent == IF pout = "ok" THEN Fanout(subject, bytes, call.reply) ELSE << >>
                    caller == IF bg.pc = "sending" THEN "thread" ELSE "main"
                    loop == ConnLoop(lc.connected, lc.calls, caller)
                IN  /\ Len(net) + Len(sent) <= MaxNet
                    /\ is_connected' = lc.connected
                    /\ nc_loop' = LoopClosed(loop)
                    /\ net' = net \o sent
                    /\ last' = [OpRecord("publish_message", is_connected, lc.calls \o << call >>, "None",
                                         publish_message_except(pout = "raise"))
                                EXCEPT !.args = << subject, message, reply_to >>,
                                       !.caller = caller, !.loop = loop]
                    /\ bg' = Published(bg)
                    /\ UNCHANGED << brokerUp, subs, req, clock, failures, http, result_queue >>

\* lines 73-118
subscribe_to_subject(subject, handler) ==
    \E cout \in ConnectOutcomes :
        LET lc == LazyConnect(is_connected, cout)
        IN  \E sout \in SubscribeOutcomes(lc.connected) :
                LET call == [call |-> "subscribe", subject |-> subject, ok |-> sout = "ok"]
                IN  /\ sout = "ok" => Len(subs) < MaxSubs
                    /\ is_connected' = lc.connected
                    /\ nc_loop' = ConnLoop(lc.connected, lc.calls, "main")
                    /\ subs' = IF sout = "ok"
                               THEN Append(subs, [subject |-> subject, handler |-> handler])
                               ELSE subs
                    /\ last' = [OpRecord("subscribe_to_subject", is_connected, lc.calls \o << call >>, "None",
                                         subscribe_to_subject_except(sout = "raise"))
                                EXCEPT !.args = << subject, handler >>]
                    /\ UNCHANGED << brokerUp, net, req, clock, failures, http, bg, result_queue >>

\* lines 120-146: request_response up to the point where nc.request waits for
\* the reply; a transport that raises ends the call at once (lines 154-156)
request_response(owner, subject, request, timeout) ==
    /\ req.pc = "idle"
    /\ \E cout \in ConnectOutcomes :
        LET lc == LazyConnect(is_connected, cout)
            bytes == dumps(Envelope(ServiceName, clock, request))
            inbox == FreshInbox
        IN  \E rout \in SendOutcomes(lc.connected) :
                LET call == [call |-> "request", subject |-> subject, data |-> bytes,
                             reply |-> inbox, ok |-> rout # "raise"]
                    calls == lc.calls \o << call >>
                    sent == IF rout = "ok" THEN Fanout(subject, bytes, inbox) ELSE << >>
                    exc == request_response_except(TRUE)
                    caller == IF owner = "bridge" THEN "thread" ELSE "main"
                    loop == ConnLoop(lc.connected, lc.calls, caller)
                IN  /\ Len(net) + Len(sent) <= MaxNet
                    /\ is_connected' = lc.connected
                    /\ net' = net \o sent
                    /\ IF rout = "raise"
                       THEN /\ req' = IdleReq
                            /\ last' = [OpRecord("request_response", is_connected, calls,
                                                 exc.ret, exc.raised)
                                        EXCEPT !.caller = caller, !.loop = loop]
                            /\ bg' = Returned(owner, exc.ret)
                            /\ nc_loop' = LoopClosed(loop)
                       ELSE /\ req' = [pc |-> "waiting", owner |-> owner, inbox |-> inbox,
                                       remaining |-> timeout, reply |-> << >>]
                            /\ last' = [OpRecord("request_sent", is_connected, calls, "", FALSE)
                                        EXCEPT !.caller = caller, !.loop = loop]
                            /\ nc_loop' = loop
                            /\ UNCHANGED bg
                    /\ UNCHANGED << brokerUp, subs, clock, failures, http, result_queue >>

\* lines 146-152: the reply arrived; decode it and return its data
request_reply ==
    /\ req.pc = "waiting"
    /\ req.reply # << >>
    /\ LET d == ResponseData(req.reply[1].data)
           exc == request_response_except(TRUE)
           ret == IF d.exc THEN exc.ret ELSE d.data
       IN  /\ last' = [OpRecord("request_response", is_connected, << >>, ret,
                                IF d.exc THEN exc.raised ELSE FALSE)
                       EXCEPT !.reply = req.reply]
           /\ bg' = Returned(req.owner, ret)
    /\ req' = IdleReq
    /\ nc_loop' = LoopClosed(nc_loop)
    /\ UNCHANGED << is_connected, brokerUp, subs, net, clock, failures, http, result_queue >>

\* lines 146, 154-156: no reply within the timeout; nc.request raises
request_timeout ==
    /\ req.pc = "waiting"
    /\ req.reply = << >>
    /\ req.remaining = 0
    /\ LET exc == request_response_except(TRUE)
       IN  /\ last' = OpRecord("request_response", is_connected, << >>, exc.ret, exc.raised)
           /\ bg' = Returned(req.owner, exc.ret)
    /\ req' = IdleReq
    /\ nc_loop' = LoopClosed(nc_loop)
    /\ UNCHANGED << is_connected, brokerUp, subs, net, clock, failures, http, result_queue >>

\* lines 85-111: the client hands the next message to the wrapper of its
\* subscription
deliver ==
    /\ net # << >>
    /\ subs[Head(Head(net).to)].handler # "handle_user_created"
    /\ LET msg == Head(net)
           sid == Head(msg.to)
           rest == IF Len(msg.to) > 1 THEN << [msg EXCEPT !.to = Tail(@)] >> ELSE << >>
       IN  \E h \in HandlerOutcomes(subs[sid].handler), pout \in SendOutcomes(is_connected) :
               LET r == message_handler(msg, h, clock, pout)
                   out == r.calls # << >> /\ pout = "ok"
                   sent == IF out THEN Fanout(r.calls[1].subject, r.calls[1].data, "") ELSE << >>
               IN  /\ Len(rest) + Len(net) - 1 + Len(sent) <= MaxNet
                   /\ net' = rest \o Tail(net) \o sent
                   /\ req' = IF out
                             THEN ReqAfterPublish(req, r.calls[1].subject, r.calls[1].data, r.response)
                             ELSE req
                   /\ last' = [OpRecord("message_handler", is_connected, r.calls, "None", r.raised)
                               EXCEPT !.delivery = << [msg |-> msg, sid |-> sid, decoded |-> r.decoded,
                                                       called |-> r.called, args |-> r.args,
                                                       handlerRaised |-> r.handlerRaised,
                                                       response |-> r.response,
                                                       after |-> failures] >>]
                   /\ failures' = (failures \/ r.handlerRaised)
    /\ UNCHANGED << is_connected, nc_loop, brokerUp, subs, clock, http, bg, result_queue >>

(* ---------------------------- environment ----------------------------- *)
\* what other services put on the wire: a full envelope, envelopes with
\* keys missing or unknown, a JSON value that is no object, and bytes that
\* are no JSON
ForeignWire ==
    { dumps(Envelope("user-service", 0, "d3")),
      dumps(<< Member("sender", "user-service"), Member("v", "d1") >>),
      dumps(<< >>),
      [kind |-> "scalar", members |-> << >>],
      [kind |-> "garbage", members |-> << >>] }

\* reply_to arguments of publish_message: the default None, an empty string,
\* a subject
ReplyTos == {"None", "", "reply.to"}

\* the messages other services publish: each kind of bytes, asking for a
\* reply (all but the envelope with keys missing)
ForeignMessages ==
    {[data |-> b, reply |-> IF b.kind = "object" /\ Len(b.members) = 2 THEN "" ELSE "reply.to"] :
        b \in ForeignWire}

\* another service publishes on a subject this client subscribes to
foreign_publish(subject, m) ==
    /\ is_connected /\ brokerUp
    /\ Fanout(subject, m.data, m.reply) # << >>
    /\ Len(net) + Len(Fanout(subject, m.data, m.reply)) <= MaxNet
    /\ net' = net \o Fanout(subject, m.data, m.reply)
    /\ last' = NoOp
    /\ UNCHANGED << is_connected, nc_loop, brokerUp, subs, req, clock, failures, http, bg, result_queue >>

\* another service answers the waiting request
foreign_reply(bytes) ==
    /\ is_connected /\ brokerUp
    /\ req.pc = "waiting" /\ req.reply = << >>
    /\ req' = ReqAfterPublish(req, req.inbox, bytes, "foreign")
    /\ last' = NoOp
    /\ UNCHANGED << is_connected, nc_loop, brokerUp, subs, net, clock, failures, http, bg, result_queue >>

\* the broker goes away or comes back
broker_flip ==
    /\ brokerUp' = ~brokerUp
    /\ last' = NoOp
    /\ UNCHANGED << is_connected, nc_loop, subs, net, req, clock, failures, http, bg, result_queue >>

\* the client notices that its broker has gone
connection_lost ==
    /\ is_connected /\ ~brokerUp
    /\ is_connected' = FALSE
    /\ nc_loop' = "none"
    /\ last' = NoOp
    /\ UNCHANGED << brokerUp, subs, net, req, clock, failures, http, bg, result_queue >>

\* time passes: the loop's clock advances, the waiting request's timeout
\* and the caller's join run down
tick ==
    /\ \/ clock < MaxClock
       \/ req.pc = "waiting" /\ req.remaining > 0
       \/ http.pc = "joining" /\ http.joinLeft > 0
    /\ clock' = IF clock < MaxClock THEN clock + 1 ELSE clock
    /\ req' = IF req.pc = "waiting" /\ req.remaining > 0
              THEN [req EXCEPT !.remaining = @ - 1] ELSE req
    /\ http' = IF http.pc = "joining" /\ http.joinLeft > 0
               THEN [http EXCEPT !.joinLeft = @ - 1] ELSE http
    /\ last' = NoOp
    /\ UNCHANGED << is_connected, nc_loop, brokerUp, subs, net, failures, bg, result_queue >>

(* --------------------------- specification ---------------------------- *)
\* route, data, valid and started tell of a call of a fire-and-forget
\* endpoint: which one, the JSON body it was called with, whether the body
\* had what the endpoint requires, whether it started its background thread
IdleHttp == [pc |-> "idle", joinLeft |-> 0, joined |-> "", status |-> 0, body |-> "",
             raised |-> FALSE, route |-> "", data |-> << >>, valid |-> FALSE,
             started |-> FALSE]
IdleBg == [pc |-> "idle", result |-> "None"]

Init ==
    /\ is_connected = FALSE
    /\ nc_loop = "none"
    /\ brokerUp \in BOOLEAN
    /\ subs = << >>
    /\ net = << >>
    /\ req = IdleReq
    /\ clock = 0
    /\ last = NoOp
    /\ failures = FALSE
    /\ http = IdleHttp
    /\ bg = IdleBg
    /\ result_queue = << >>

\* the client's operations and its subscriptions at work
Next ==
    \/ connect_call
    \/ disconnect
    \/ \E s \in Subjects, m \in Payloads, r \in ReplyTos : publish_message(s, m, r)
    \/ \E s \in Subjects, h \in Handlers : subscribe_to_subject(s, h)
    \/ deliver
    \/ \E s \in Subjects, m \in ForeignMessages : foreign_publish(s, m)
    \/ broker_flip
    \/ connection_lost
    \/ tick

Spec == Init /\ [][Next]_vars

\* request/response over the subscriptions
RequestNext ==
    \/ \E s \in Subjects, h \in Handlers : subscribe_to_subject(s, h)
    \/ \E s \in Subjects, m \in Payloads, t \in Timeouts : request_response("main", s, m, t)
    \/ request_reply
    \/ request_timeout
    \/ deliver
    \/ \E b \in ForeignWire : foreign_reply(b)
    \/ broker_flip
    \/ connection_lost
    \/ tick

RequestSpec == Init /\ [][RequestNext]_vars

\* the event loop runs its timers and the callbacks that are ready
FairRequestSpec ==
    RequestSpec /\ WF_vars(tick) /\ WF_vars(request_reply) /\ WF_vars(request_timeout)

(* ------------------- request_user_info (controllers.py) --------------- *)
\* line 133: thread.join(timeout=6) returns when the thread has ended or
\* when the timeout has run down
JoinWaitsForThread(h, b) == b.pc = "finished"

JoinReturns(h, b) == b.pc = "finished" \/ h.joinLeft = 0

\* Faulty variant: any result that is not empty counts as a success
CheckResultNonEmpty(queue) ==
    IF queue # << >>
    THEN LET result == Head(queue)
         IN  IF Truthy(result)
             THEN [status |-> 200, body |-> result, raised |-> FALSE]
             ELSE IF result = "None"
             THEN [status |-> 500, body |-> "", raised |-> TRUE]
             ELSE [status |-> 500, body |-> "timeout", raised |-> FALSE]
    ELSE [status |-> 504, body |-> "Request timeout", raised |-> FALSE]

\* lines 135-145: what the caller makes of the queue after the join.  A
\* result that is None has no .get: line 143 raises AttributeError, which the
\* endpoint's `except ImportError` does not catch
CheckResult(queue) ==
    IF queue # << >>
    THEN LET result == Head(queue)
         IN  IF Truthy(result) /\ result # "err"
             THEN [status |-> 200, body |-> result, raised |-> FALSE]
             ELSE IF result = "None"
             THEN [status |-> 500, body |-> "", raised |-> TRUE]
             ELSE [status |-> 500, body |-> IF result = "err" THEN "err" ELSE "timeout",
                   raised |-> FALSE]
    ELSE [status |-> 504, body |-> "Request timeout", raised |-> FALSE]

\* lines 107-133: the endpoint is called: a fresh queue, the background
\* thread started, the caller in thread.join(timeout=6)
request_user_info(user_id) ==
    /\ http.pc \in {"idle", "done"}
    /\ bg.pc \in {"idle", "finished"}
    /\ req.pc = "idle"
    /\ http' = [IdleHttp EXCEPT !.pc = "joining", !.joinLeft = JoinTimeout]
    /\ bg' = [pc |-> "running", result |-> "None", user_id |-> user_id]
    /\ result_queue' = << >>
    /\ last' = NoOp
    /\ UNCHANGED << is_connected, nc_loop, brokerUp, subs, net, req, clock, failures >>

\* lines 110, 147-151: the messaging module cannot be imported
request_user_info_unavailable ==
    /\ http.pc \in {"idle", "done"}
    /\ bg.pc \in {"idle", "finished"}
    /\ http' = [IdleHttp EXCEPT !.pc = "done", !.status = 200, !.body = "not available"]
    /\ last' = NoOp
    /\ UNCHANGED << is_connected, nc_loop, brokerUp, subs, net, req, clock, failures, bg, result_queue >>

\* lines 112-117, 124-126 and messaging.py 183-185: the thread runs
\* get_user_info on its own loop: request_response('user.get', ...) with the
\* default timeout, on the module's messenger
run_async ==
    /\ bg.pc = "running"
    /\ req.pc = "idle"
    /\ request_response("bridge", "user.get", bg.user_id, RequestTimeout)

\* lines 128-129: get_user_async raised (the thread could not get a loop)
run_async_except ==
    /\ bg.pc = "running"
    /\ req.pc = "idle"
    /\ bg' = [bg EXCEPT !.pc = "finished", !.result = "err"]
    /\ result_queue' = Append(result_queue, "err")
    /\ last' = NoOp
    /\ UNCHANGED << is_connected, nc_loop, brokerUp, subs, net, req, clock, failures, http >>

\* line 127: result_queue.put(result), and the thread ends
queue_put ==
    /\ bg.pc = "returned"
    /\ bg' = [bg EXCEPT !.pc = "finished"]
    /\ result_queue' = Append(result_queue, bg.result)
    /\ last' = NoOp
    /\ UNCHANGED << is_connected, nc_loop, brokerUp, subs, net, req, clock, failures, http >>

\* line 133: the join returns
join_return ==
    /\ http.pc = "joining"
    /\ JoinReturns(http, bg)
    /\ http' = [http EXCEPT !.pc = "checking",
                            !.joined = IF bg.pc = "finished" THEN "finished" ELSE "timeout"]
    /\ last' = NoOp
    /\ UNCHANGED << is_connected, nc_loop, brokerUp, subs, net, req, clock, failures, bg, result_queue >>

\* lines 135-145: the caller looks into the queue and answers
check_result ==
    /\ http.pc = "checking"
    /\ LET r == CheckResult(result_queue)
       IN  http' = [http EXCEPT !.pc = "done", !.status = r.status, !.body = r.body,
                                !.raised = r.raised]
    /\ result_queue' = IF result_queue # << >> THEN Tail(result_queue) ELSE result_queue
    /\ last' = NoOp
    /\ UNCHANGED << is_connected, nc_loop, brokerUp, subs, net, req, clock, failures, bg >>

\* what the user service answers on user.get: the user, an empty object, an
\* error object, or bytes that are no JSON
UserServiceReplies ==
    { dumps(Envelope("user-service", 0, "d3")),
      dumps(Envelope("user-service", 0, "{}")),
      dumps(Envelope("user-service", 0, "err")),
      [kind |-> "garbage", members |-> << >>] }

\* GET /request-user-info/<user_id> in the notification service
BridgeNext ==
    \/ \E u \in UserIds : request_user_info(u)
    \/ request_user_info_unavailable
    \/ run_async
    \/ run_async_except
    \/ queue_put
    \/ join_return
    \/ check_result
    \/ request_reply
    \/ request_timeout
    \/ \E b \in UserServiceReplies : foreign_reply(b)
    \/ broker_flip
    \/ connection_lost
    \/ tick

BridgeSpec == Init /\ [][BridgeNext]_vars

\* time passes and the HTTP worker thread runs; nothing makes the background
\* thread's connect or request ever finish
FairBridgeSpec ==
    BridgeSpec /\ WF_vars(tick) /\ WF_vars(join_return) /\ WF_vars(check_result)

\* every operation of the client, with its subscriptions at work
ClientNext ==
    \/ connect_call
    \/ disconnect
    \/ \E s \in Subjects, m \in Payloads, r \in ReplyTos : publish_message(s, m, r)
    \/ \E s \in Subjects, h \in Handlers : subscribe_to_subject(s, h)
    \/ \E s \in Subjects, m \in Payloads, t \in Timeouts : request_response("main", s, m, t)
    \/ request_reply
    \/ request_timeout
    \/ deliver
    \/ broker_flip
    \/ connection_lost
    \/ tick

ClientSpec == Init /\ [][ClientNext]_vars

(* ----------------------- setup_message_handlers ----------------------- *)
\* values of the SERVICE_NAME environment variable, each the sequence of the
\* words it is made of; << >> is the variable not set (line 231: '')
ServiceNames ==
    { << "notification", "service" >>, << "user", "service" >>,
      << "user", "notification", "hub" >>, << "demo", "service" >>, << >> }

\* 'word' in service_name
Contains(name, word) == \E i \in 1..Len(name) : name[i] = word

\* Faulty variant: the test for 'user' made before the test for 'notification'
WantedUserFirst(name) ==
    IF Contains(name, "user")
    THEN << [subject |-> "user.get", handler |-> "handle_user_info_request"] >>
    ELSE IF Contains(name, "notification")
    THEN << [subject |-> "notification.send", handler |-> "handle_notification_request"],
            [subject |-> "user.created", handler |-> "handle_user_created"] >>
    ELSE << >>

\* lines 233-249: the subscriptions the service asks for, in order
Wanted(name) ==
    IF Contains(name, "notification")
    THEN << [subject |-> "notification.send", handler |-> "handle_notification_request"],
            [subject |-> "user.created", handler |-> "handle_user_created"] >>
    ELSE IF Contains(name, "user")
    THEN << [subject |-> "user.get", handler |-> "handle_user_info_request"] >>
    ELSE << >>

\* lines 81-118: one subscribe_to_subject call made from a client in state
\* st: the lazy connect (outcome cout), then the transport subscribe (sout)
SubscribeResult(st, want, cout, sout) ==
    LET lc == LazyConnect(st.connected, cout)
        call == [call |-> "subscribe", subject |-> want.subject, ok |-> sout = "ok"]
    IN  [connected |-> lc.connected,
         subs |-> IF sout = "ok" THEN Append(st.subs, want) ELSE st.subs,
         calls |-> st.calls \o lc.calls \o << call >>,
         possible |-> st.possible /\ sout \in SubscribeOutcomes(lc.connected),
         raised |-> st.raised \/ subscribe_to_subject_except(sout = "raise")]

\* lines 224-251: the service starts: connect(), then the subscriptions that
\* go with SERVICE_NAME, one after the other
setup_message_handlers(name) ==
    /\ ~is_connected /\ subs = << >> /\ net = << >> /\ req.pc = "idle"
    /\ \E cout \in ConnectOutcomes :
         LET c == connect(is_connected, cout, FALSE)
             w == Wanted(name)
             st0 == [connected |-> c.connected, subs |-> subs, calls |-> c.calls,
                     possible |-> TRUE, raised |-> c.raised]
         IN  \E couts \in [1..Len(w) -> ConnectOutcomes], souts \in [1..Len(w) -> {"ok", "raise"}] :
                 LET st1 == IF Len(w) >= 1 THEN SubscribeResult(st0, w[1], couts[1], souts[1]) ELSE st0
                     st2 == IF Len(w) >= 2 THEN SubscribeResult(st1, w[2], couts[2], souts[2]) ELSE st1
                 IN  /\ st2.possible
                     /\ is_connected' = st2.connected
                     /\ nc_loop' = ConnLoop(st2.connected, st2.calls, "main")
                     /\ subs' = st2.subs
                     /\ last' = [OpRecord("setup_message_handlers", is_connected, st2.calls, "None",
                                          st2.raised)
                                 EXCEPT !.args = << name >>]
    /\ UNCHANGED << brokerUp, net, req, clock, failures, http, bg, result_queue >>

\* lines 41-71: one publish_message call made from a client in state st: the
\* lazy connect (outcome cout), then the transport publish (pout)
PublishResult(st, subject, message, reply_to, cout, pout) ==
    LET lc == LazyConnect(st.connected, cout)
        bytes == dumps(Envelope(ServiceName, clock, message))
        call == [call |-> "publish", subject |-> subject, data |-> bytes,
                 reply |-> PublishReply(reply_to), ok |-> pout # "raise"]
        sent == IF pout = "ok" THEN Fanout(subject, bytes, call.reply) ELSE << >>
    IN  [connected |-> lc.connected,
         calls |-> st.calls \o lc.calls \o << call >>,
         sent |-> st.sent \o sent,
         possible |-> st.possible /\ pout \in SendOutcomes(lc.connected),
         raised |-> st.raised \/ publish_message_except(pout = "raise")]

\* Faulty variant: the welcome email sent before the welcome notification
handle_user_created_email_first(data) ==
    << [subject |-> "email.send", message |-> "welcome-email"],
       [subject |-> "notification.send", message |-> "welcome"] >>

\* lines 189-208 with 163-169 and 175-181: handle_user_created takes user_id
\* and email from the data (None for a key that is missing) and awaits
\* send_notification, then send_email: publish_message on notification.send,
\* then on email.send, each with the default reply_to; it returns None.  The
\* two payloads are named by what they are
handle_user_created(data) ==
    << [subject |-> "notification.send", message |-> "welcome"],
       [subject |-> "email.send", message |-> "welcome-email"] >>

\* lines 85-111 for a subscription whose handler is handle_user_created: the
\* wrapper decodes the message and awaits the handler, which makes its two
\* publish_message calls on the module's messenger; the handler's None is
\* not replied to (line 101)
deliver_user_created ==
    /\ net # << >>
    /\ subs[Head(Head(net).to)].handler = "handle_user_created"
    /\ LET msg == Head(net)
           sid == Head(msg.to)
           rest == IF Len(msg.to) > 1 THEN << [msg EXCEPT !.to = Tail(@)] >> ELSE << >>
           dec == DecodeEnvelope(msg.data)
       IN  IF dec.exc
           THEN /\ net' = rest \o Tail(net)
                /\ is_connected' = is_connected
                /\ nc_loop' = nc_loop
                /\ last' = [OpRecord("message_handler", is_connected, << >>, "None",
                                     message_handler_except(TRUE))
                            EXCEPT !.delivery = << [msg |-> msg, sid |-> sid, decoded |-> FALSE,
                                                    called |-> FALSE, args |-> << >>,
                                                    handlerRaised |-> FALSE, response |-> "None",
                                                    after |-> failures, handlerCalls |-> << >>] >>]
           ELSE \E couts \in [1..2 -> ConnectOutcomes], pouts \in [1..2 -> {"ok", "lost", "raise"}] :
                    LET w == handle_user_created(dec.data)
                        st0 == [connected |-> is_connected, calls |-> << >>, sent |-> << >>,
                                possible |-> TRUE, raised |-> FALSE]
                        st1 == PublishResult(st0, w[1].subject, w[1].message, "None",
                                             couts[1], pouts[1])
                        st2 == PublishResult(st1, w[2].subject, w[2].message, "None",
                                             couts[2], pouts[2])
                        reply == ReplyExpected(msg.reply, "None")
                    IN  /\ st2.possible
                        /\ ~reply
                        /\ Len(rest) + Len(net) - 1 + Len(st2.sent) <= MaxNet
                        /\ net' = rest \o Tail(net) \o st2.sent
                        /\ is_connected' = st2.connected
                        /\ nc_loop' = ConnLoop(st2.connected, st2.calls, "main")
                        /\ last' = [OpRecord("message_handler", is_connected, << >>, "None",
                                             message_handler_except(st2.raised))
                                    EXCEPT !.delivery =
                                        << [msg |-> msg, sid |-> sid, decoded |-> TRUE,
                                            called |-> TRUE,
                                            args |-> << [data |-> dec.data, sender |-> dec.sender,
                                                         timestamp |-> dec.timestamp] >>,
                                            handlerRaised |-> st2.raised, response |-> "None",
                                            after |-> failures, handlerCalls |-> st2.calls] >>]
    /\ UNCHANGED << brokerUp, subs, req, clock, failures, http, bg, result_queue >>

\* the subjects the services subscribe to at startup
SetupSubjects == {"notification.send", "user.created", "user.get"}

\* the service starts, its subscriptions work, it stops
SetupNext ==
    \/ \E n \in ServiceNames : setup_message_handlers(n)
    \/ disconnect
    \/ \E s \in SetupSubjects, m \in ForeignMessages : foreign_publish(s, m)
    \/ deliver
    \/ deliver_user_created
    \/ broker_flip
    \/ connection_lost

SetupSpec == Init /\ [][SetupNext]_vars

(* ------------- the fire-and-forget endpoints (controllers.py) --------- *)
\* names bound at module level in controllers.py (lines 1-12) and the names
\* each endpoint function imports for itself (lines 38-41, 80, 110-120)
ModuleGlobals == {"sys", "os", "asyncio", "Blueprint", "request", "APIResponse", "bp"}
LocalImports(fn) ==
    IF fn = "send_notification_endpoint" THEN {"send_notification", "threading"}
    ELSE IF fn = "broadcast_message" THEN {"messenger"}
    ELSE IF fn = "request_user_info" THEN {"get_user_info", "threading", "queue"}
    ELSE {}

\* a name used in the body of fn resolves to a local or a module global;
\* otherwise its use raises NameError
Resolves(fn, name) == name \in ModuleGlobals \cup LocalImports(fn)

\* JSON bodies of POST /send-notification and POST /broadcast; "" is a key
\* that is missing or empty
NotificationBodies ==
    { [user_id |-> "uid42", message |-> "hello"],
      [user_id |-> "", message |-> "hello"],
      [user_id |-> "uid42", message |-> ""] }
BroadcastBodies ==
    { [subject |-> "general.broadcast", message |-> "hello"],
      [subject |-> "general.broadcast", message |-> ""] }

\* lines 37-66 and 79-104: what a fire-and-forget endpoint does once its body
\* has what it requires: import the messaging module, start the thread,
\* report success; ImportError takes the fallback, any other exception the
\* outer handler
StartThread(fn, importable) ==
    IF ~importable
    THEN [status |-> 200, body |-> "not available", started |-> FALSE]
    ELSE IF ~Resolves(fn, "threading")
    THEN [status |-> 500, body |-> "failed", started |-> FALSE]
    ELSE [status |-> 200, body |-> "sent", started |-> TRUE]

\* the endpoint's answer and its thread, if it started one
Answer(route, data, valid, r, subject, message) ==
    /\ http' = [IdleHttp EXCEPT !.pc = "done", !.route = route, !.data = << data >>,
                                !.valid = valid,
                                !.status = r.status, !.body = r.body, !.started = r.started]
    /\ bg' = IF r.started
             THEN [pc |-> "sending", result |-> "None", subject |-> subject, message |-> message]
             ELSE bg
    /\ last' = NoOp
    /\ UNCHANGED << is_connected, nc_loop, brokerUp, subs, net, req, clock, failures, result_queue >>

\* Faulty variant: only the user id is required
NotificationRejectedUserOnly(data) == ~Truthy(data.user_id)

\* line 33: if not user_id or not message
NotificationRejected(data) == ~Truthy(data.user_id) \/ ~Truthy(data.message)

\* line 76: if not message
BroadcastRejected(data) == ~Truthy(data.message)

\* lines 24-66: POST /send-notification
send_notification_endpoint(data, importable) ==
    /\ http.pc \in {"idle", "done"}
    /\ bg.pc \in {"idle", "finished"}
    /\ IF NotificationRejected(data)
       THEN Answer("send-notification", data, FALSE,
                   [status |-> 400, body |-> "required", started |-> FALSE], "", "")
       ELSE Answer("send-notification", data, TRUE,
                   StartThread("send_notification_endpoint", importable),
                   "notification.send", data.message)

\* lines 68-104: POST /broadcast
broadcast_message(data, importable) ==
    /\ http.pc \in {"idle", "done"}
    /\ bg.pc \in {"idle", "finished"}
    /\ IF BroadcastRejected(data)
       THEN Answer("broadcast", data, FALSE,
                   [status |-> 400, body |-> "required", started |-> FALSE], "", "")
       ELSE Answer("broadcast", data, TRUE, StartThread("broadcast_message", importable),
                   data.subject, data.message)

\* lines 42-46, 83-87: the thread runs the publish on a loop of its own, on
\* the module's messenger (messaging.py 163-169)
send_async ==
    /\ bg.pc = "sending"
    /\ publish_message(bg.subject, bg.message, "None")

\* the two endpoints, their thread, and a subscriber of notification.send
EndpointNext ==
    \/ \E d \in NotificationBodies, i \in BOOLEAN : send_notification_endpoint(d, i)
    \/ \E d \in BroadcastBodies, i \in BOOLEAN : broadcast_message(d, i)
    \/ send_async
    \/ \E s \in Subjects, h \in Handlers : subscribe_to_subject(s, h)
    \/ deliver
    \/ broker_flip
    \/ connection_lost
    \/ tick

EndpointSpec == Init /\ [][EndpointNext]_vars

\* the main messaging loop (messaging.py 254-265) and the endpoint's
\* background thread at work in one process, on the module's one messenger
\* (line 159)
IsolationNext ==
    \/ \E n \in ServiceNames : setup_message_handlers(n)
    \/ \E u \in UserIds : request_user_info(u)
    \/ run_async
    \/ run_async_except
    \/ queue_put
    \/ join_return
    \/ check_result
    \/ request_reply
    \/ request_timeout
    \/ deliver
    \/ broker_flip
    \/ connection_lost
    \/ tick

IsolationSpec == Init /\ [][IsolationNext]_vars

(* ------------------------- decoding what arrives ---------------------- *)
\* envelopes of another service with any of the three keys left out
EnvelopeKeys == {"sender", "timestamp", "data"}
PartialEnvelope(keys) ==
    SelectSeq(Envelope("user-service", 3, "d3"), LAMBDA m : m.key \in keys)
InboundWire == {dumps(PartialEnvelope(keys)) : keys \in SUBSET EnvelopeKeys}

\* a connected client with one subscription (line 114) and one message of
\* another service waiting for its wrapper
DecodeInit ==
    /\ is_connected = TRUE
    /\ nc_loop = "main"
    /\ brokerUp = TRUE
    /\ subs = << [subject |-> "user.get", handler |-> "handler"] >>
    /\ \E b \in InboundWire, r \in {"", "reply.to"} :
            net = << [subject |-> "user.get", data |-> b, reply |-> r, to |-> << 1 >>] >>
    /\ req = IdleReq
    /\ clock = 0
    /\ last = NoOp
    /\ failures = FALSE
    /\ http = IdleHttp
    /\ bg = IdleBg
    /\ result_queue = << >>

\* the wrapper (lines 85-111) and request_response (lines 146-152) decode
\* what other services sent
DecodeNext ==
    \/ deliver
    \/ \E s \in Subjects, m \in Payloads, t \in Timeouts : request_response("main", s, m, t)
    \/ \E b \in InboundWire : foreign_reply(b)
    \/ request_reply
    \/ request_timeout
    \/ tick

DecodeSpec == DecodeInit /\ [][DecodeNext]_vars

(* ------------------------------ claims -------------------------------- *)
\* the run of the subscription wrapper that has just finished
Delivery == last.delivery[1]

\* C2: a run of the subscription wrapper publishes exactly one reply
\* envelope (sender = this service, data = the handler's return value) to the
\* message's reply destination when the message carried one and the handler
\* returned a non-empty value, and publishes nothing otherwise
C2_ReplyExactlyWhenAsked ==
    last.op = "message_handler" =>
        IF Delivery.msg.reply # "" /\ Delivery.called /\ ~Delivery.handlerRaised
              /\ Delivery.response \notin {"None", "{}"}
        THEN /\ Len(last.calls) = 1
             /\ last.calls[1].call = "publish"
             /\ last.calls[1].subject = Delivery.msg.reply
             /\ last.calls[1].data.kind = "object"
             /\ DictGet(last.calls[1].data.members, "sender", "") = ServiceName
             /\ DictGet(last.calls[1].data.members, "data", "") = Delivery.response
        ELSE last.calls = << >>

C2_Witness ==
    /\ last.op = "message_handler"
    /\ Delivery.msg.reply # ""
    /\ Delivery.response = "d2"
    /\ Len(last.calls) = 1 /\ last.calls[1].ok

\* C3: a handler that raises does not make the wrapper raise, and a message
\* delivered after a handler has raised is still decoded and passed to its
\* handler
C3_HandlerErrorContained ==
    last.op = "message_handler" =>
        /\ ~last.raised
        /\ (Delivery.after /\ Delivery.msg.data.kind = "object") =>
                /\ Delivery.decoded /\ Delivery.called
                /\ Delivery.args[1].data = DictGet(Delivery.msg.data.members, "data", "{}")

C3_Witness ==
    /\ last.op = "message_handler"
    /\ Delivery.after
    /\ Delivery.called /\ ~Delivery.handlerRaised
    /\ Delivery.response = "d1"

\* C4: bytes that are no parseable envelope are dropped: the handler is not
\* invoked, no reply is published, nothing is raised; an empty JSON object
\* decodes to the defaults and the handler is invoked with them
C4_DecodeFailureDrops ==
    last.op = "message_handler" =>
        /\ Delivery.msg.data.kind # "object" =>
                ~Delivery.called /\ last.calls = << >> /\ ~last.raised
        /\ Delivery.msg.data = [kind |-> "object", members |-> << >>] =>
                /\ Delivery.called
                /\ Delivery.args = << [data |-> "{}", sender |-> "unknown", timestamp |-> 0] >>

C4_Witness ==
    /\ last.op = "message_handler"
    /\ Delivery.msg.data.kind = "garbage"
    /\ Delivery.msg.reply # ""
    /\ ~Delivery.called

\* the publish_message call that has just finished failed: its lazy connect
\* returned false or the transport's publish raised
PublishFailed(l) ==
    \/ l.calls[1].call = "connect" /\ ~l.calls[1].ok
    \/ ~l.calls[Len(l.calls)].ok

\* C6: publish_message never raises; a call whose lazy connect or transport
\* publish failed, or whose subject has no subscriber, puts no message in
\* front of any subscriber
C6_PublishNeverRaises ==
    /\ [](last.op = "publish_message" => ~last.raised)
    /\ [][ last'.op = "publish_message"
             /\ ( \/ PublishFailed(last')
                  \/ \A i \in 1..Len(subs) :
                        subs[i].subject # last'.calls[Len(last'.calls)].subject )
           => net' = net ]_vars

C6_Witness ==
    /\ last.op = "publish_message"
    /\ last.calls[1].call = "connect" /\ ~last.calls[1].ok
    /\ subs # << >>

\* C8: connect() never raises; it returns true exactly when the client is
\* connected to the (reachable) broker after the call; on a client already
\* connected to the broker it returns true and leaves it connected
C8_ConnectReportsOutcome ==
    last.op = "connect" =>
        /\ ~last.raised
        /\ (last.ret = "True") <=> (is_connected /\ brokerUp)
        /\ last.ret \in {"True", "False"}
        /\ (last.connectedBefore /\ brokerUp) => (last.ret = "True" /\ is_connected)

C8_Witness ==
    /\ last.op = "connect"
    /\ last.connectedBefore
    /\ last.ret = "True"

\* C1: when the reply a request_response call received was published by a
\* local handler's wrapper, the call returns exactly the value that handler
\* returned, and that value is non-empty
C1_RequestReturnsHandlerValue ==
    (last.op = "request_response" /\ last.reply # << >> /\ last.reply[1].hret # "foreign") =>
        /\ last.ret = last.reply[1].hret
        /\ last.ret \notin {"None", "{}"}
        /\ ~last.raised

C1_Witness ==
    /\ last.op = "request_response"
    /\ last.reply # << >>
    /\ last.reply[1].hret = "d2"
    /\ last.ret = "d2"

\* the cases of C5 for the request_response call that has just returned
RequestConnectFailed == last.calls # << >> /\ last.calls[1].call = "connect" /\ ~last.calls[1].ok
RequestTransportRaised == last.calls # << >> /\ ~last.calls[Len(last.calls)].ok
RequestTimedOut == last.calls = << >> /\ last.reply = << >>
RequestReplyUndecodable == last.reply # << >> /\ last.reply[1].data.kind # "object"

\* C5: request_response returns None and raises nothing when its lazy
\* connect failed, when the transport raised, when no reply came before the
\* timeout and when the reply's bytes cannot be decoded; and a call that
\* waits for a reply always returns
C5_RequestAlwaysReturns ==
    /\ [](last.op = "request_response" =>
            /\ ~last.raised
            /\ ( RequestConnectFailed \/ RequestTransportRaised
                 \/ RequestTimedOut \/ RequestReplyUndecodable ) => last.ret = "None")
    /\ (req.pc = "waiting") ~> (req.pc = "idle")

C5_Witness ==
    /\ last.op = "request_response"
    /\ RequestTimedOut
    /\ last.ret = "None"
    /\ subs = << >>

\* the transport calls of the operation that has just finished, by name
CallNames == [i \in 1..Len(last.calls) |-> last.calls[i].call]

\* C7: publish_message, subscribe_to_subject and request_response called on a
\* client that is not connected make one connect attempt before their
\* transport call; called on a connected client they make none
C7_LazyConnectOnUse ==
    (last.op \in {"publish_message", "subscribe_to_subject", "request_sent"}
        \/ (last.op = "request_response" /\ last.calls # << >>)) =>
        IF ~last.connectedBefore
        THEN /\ Len(CallNames) = 2
             /\ CallNames[1] = "connect"
             /\ CallNames[2] \in {"publish", "subscribe", "request"}
        ELSE /\ Len(CallNames) = 1
             /\ CallNames[1] \in {"publish", "subscribe", "request"}

C7_Witness ==
    /\ last.op = "request_sent"
    /\ ~last.connectedBefore
    /\ CallNames = << "connect", "request" >>
    /\ is_connected

\* C9: when the bridged operation has not put a result, the caller answers
\* 504 'Request timeout', released by the join bound having run down; and the
\* caller always gets out of the join, whatever the background thread does
C9_JoinBound ==
    /\ []((http.pc = "done" /\ http.joined = "timeout" /\ bg.pc # "finished") =>
            (http.status = 504 /\ http.joinLeft = 0 /\ ~http.raised))
    /\ (http.pc = "joining") ~> (http.pc = "done")

C9_Witness ==
    /\ http.pc = "done"
    /\ http.status = 504
    /\ bg.pc = "running"
    /\ req.pc = "idle"

\* C10: when the join bound ran down before the background thread had put
\* its result, the caller answers 504, whenever the put then happens
C10_TimeoutWinsRace ==
    (http.pc = "done" /\ http.joined = "timeout") => http.status = 504

\* C19: disconnect() on a connected client closes the connection; on a
\* client that is not connected it makes no transport call; it raises
\* nothing, and after it the client is not connected
C19_DisconnectIdempotent ==
    last.op = "disconnect" =>
        /\ ~last.raised
        /\ ~is_connected
        /\ IF last.connectedBefore
           THEN last.calls = << [call |-> "close"] >>
           ELSE last.calls = << >>

C19_Witness ==
    /\ last.op = "disconnect"
    /\ ~last.connectedBefore
    /\ last.calls = << >>
    /\ brokerUp

\* the transport publishes of the operation that has just finished
PublishCalls == SelectSeq(last.calls, LAMBDA c : c.call = "publish")

\* C16: publish_message(subject, data, reply_to) issues exactly one transport
\* publish, on the given subject, with an envelope whose sender is the
\* client's service name and whose data is the given data; the publish
\* carries reply_to as its reply subject when reply_to is non-empty and no
\* reply subject otherwise
C16_PublishHandsOneMessage ==
    last.op = "publish_message" =>
        /\ Len(PublishCalls) = 1
        /\ PublishCalls[1].subject = last.args[1]
        /\ PublishCalls[1].data.kind = "object"
        /\ DictGet(PublishCalls[1].data.members, "sender", "") = ServiceName
        /\ DictGet(PublishCalls[1].data.members, "data", "") = last.args[2]
        /\ IF last.args[3] \notin {"None", ""}
           THEN PublishCalls[1].reply = last.args[3]
           ELSE PublishCalls[1].reply = ""

C16_Witness ==
    /\ last.op = "publish_message"
    /\ last.args[3] = "reply.to"
    /\ PublishCalls[1].ok
    /\ net # << >>
    /\ net[Len(net)].reply = "reply.to"

\* C17: subscribe_to_subject never raises; when its transport subscribe
\* succeeded the subscription (subject, handler) is registered, and when the
\* lazy connect or the transport subscribe failed the subscriptions are as
\* before; a message only ever goes to the handler of a registered
\* subscription on its subject
C17_SubscribeNeverRaises ==
    /\ [](last.op = "subscribe_to_subject" => ~last.raised)
    /\ [](last.op = "message_handler" =>
            /\ Delivery.sid \in 1..Len(subs)
            /\ subs[Delivery.sid].subject = Delivery.msg.subject)
    /\ [][ last'.op = "subscribe_to_subject" =>
             IF last'.calls[Len(last'.calls)].ok
             THEN subs' = Append(subs, [subject |-> last'.args[1], handler |-> last'.args[2]])
             ELSE subs' = subs ]_vars

C17_Witness ==
    /\ last.op = "subscribe_to_subject"
    /\ last.calls[1].call = "connect" /\ ~last.calls[1].ok
    /\ ~last.calls[2].ok
    /\ subs = << >>

\* C20: for a message that carries a reply destination, a handler that
\* returns an empty object still has a reply envelope with that value
\* published to the reply destination
C20_ReplyForEmptyValue ==
    ( /\ last.op = "message_handler"
      /\ Delivery.msg.reply # ""
      /\ Delivery.called /\ ~Delivery.handlerRaised
      /\ Delivery.response = "{}" ) =>
        /\ Len(last.calls) = 1
        /\ last.calls[1].call = "publish"
        /\ last.calls[1].subject = Delivery.msg.reply
        /\ DictGet(last.calls[1].data.members, "data", "") = "{}"

\* the envelope of a message as the three members publish_message writes
FullEnvelope(m) ==
    Len(m) = 3 /\ m[1].key = "sender" /\ m[2].key = "timestamp" /\ m[3].key = "data"

\* C14: the envelope publish_message hands to the transport holds the
\* client's service name, the sender's clock at the time of the call and the
\* given data; and the handler of every subscription a message with such an
\* envelope goes to is invoked with exactly the data, the sender and the
\* timestamp of the envelope, whatever the receiver's clock says
C14_EnvelopeRoundTrip ==
    /\ last.op = "publish_message" =>
          PublishCalls[1].data =
              [kind |-> "object",
               members |-> << Member("sender", ServiceName), Member("timestamp", clock),
                              Member("data", last.args[2]) >>]
    /\ (last.op = "message_handler" /\ Delivery.msg.data.kind = "object"
            /\ FullEnvelope(Delivery.msg.data.members)) =>
          /\ Delivery.called
          /\ Delivery.args = << [data |-> Delivery.msg.data.members[3].val,
                                 sender |-> Delivery.msg.data.members[1].val,
                                 timestamp |-> Delivery.msg.data.members[2].val] >>

\* the second subscriber of a subject gets a message this client published at
\* time 0, when the clock has moved on
C14_Witness ==
    /\ last.op = "message_handler"
    /\ Delivery.sid = 2
    /\ clock = 1
    /\ Delivery.args = << [data |-> "d1", sender |-> ServiceName, timestamp |-> 0] >>

\* the members of a JSON object hold the key; the value written under it
HasKey(m, k) == \E i \in 1..Len(m) : m[i].key = k
ValueOf(m, k) == m[CHOOSE i \in 1..Len(m) : m[i].key = k].val

\* C15: for a message whose bytes are a JSON object, the wrapper invokes the
\* handler with the value of each of the keys data, sender and timestamp that
\* is present and with {}, 'unknown' and 0 for each that is missing; and
\* request_response returns {} for a reply object without a data key, and the
\* data value for one that has it
C15_DecodeDefaults ==
    /\ (last.op = "message_handler" /\ Delivery.msg.data.kind = "object") =>
          LET m == Delivery.msg.data.members
          IN  /\ Delivery.called
              /\ Delivery.args =
                   << [data |-> IF HasKey(m, "data") THEN ValueOf(m, "data") ELSE "{}",
                       sender |-> IF HasKey(m, "sender") THEN ValueOf(m, "sender") ELSE "unknown",
                       timestamp |-> IF HasKey(m, "timestamp") THEN ValueOf(m, "timestamp") ELSE 0] >>
    /\ (last.op = "request_response" /\ last.reply # << >>
            /\ last.reply[1].data.kind = "object") =>
          LET m == last.reply[1].data.members
          IN  /\ ~last.raised
              /\ last.ret = IF HasKey(m, "data") THEN ValueOf(m, "data") ELSE "{}"

\* a message with nothing but a timestamp has reached the handler
C15_Witness ==
    /\ last.op = "message_handler"
    /\ Delivery.msg.data.members = << Member("timestamp", 3) >>
    /\ Delivery.args = << [data |-> "{}", sender |-> "unknown", timestamp |-> 3] >>

\* a reply with a sender and a timestamp but no data has been returned as {}
C15_ReplyWitness ==
    /\ last.op = "request_response"
    /\ last.reply # << >>
    /\ last.reply[1].data.members = << Member("sender", "user-service"), Member("timestamp", 3) >>
    /\ last.ret = "{}"

\* the subscriptions as a set of (subject, handler) pairs
Registered == {subs[i] : i \in 1..Len(subs)}

\* C18: setup_message_handlers makes its connect attempt before any
\* subscribe; when every transport call of it succeeded, the subscriptions
\* are notification.send and user.created with their handlers for a
\* SERVICE_NAME containing 'notification', user.get with the user-info handler
\* for one containing 'user' and not 'notification', and none otherwise
C18_SetupSubscriptions ==
    last.op = "setup_message_handlers" =>
        /\ last.calls[1].call = "connect"
        /\ \A i \in 2..Len(last.calls) : last.calls[i].call # "connect" \/ ~last.calls[1].ok
        /\ (\A i \in 1..Len(last.calls) : last.calls[i].ok) =>
              /\ \A i \in 2..Len(last.calls) : last.calls[i].call = "subscribe"
              /\ Registered =
                   IF Contains(last.args[1], "notification")
                   THEN { [subject |-> "notification.send", handler |-> "handle_notification_request"],
                          [subject |-> "user.created", handler |-> "handle_user_created"] }
                   ELSE IF Contains(last.args[1], "user")
                   THEN { [subject |-> "user.get", handler |-> "handle_user_info_request"] }
                   ELSE {}
              /\ Len(subs) = Cardinality(Registered)

\* a service whose name has both words has started against a reachable broker
C18_Witness ==
    /\ last.op = "setup_message_handlers"
    /\ last.args[1] = << "user", "notification", "hub" >>
    /\ \A i \in 1..Len(last.calls) : last.calls[i].ok
    /\ Len(subs) = 2

\* C12: whatever the bridged user.get request came to, request_user_info
\* answers with a success, error or timeout status and no exception leaves
\* the endpoint
C12_NoUnhandledException ==
    http.pc = "done" =>
        /\ ~http.raised
        /\ http.status \in {200, 500, 504}

\* C13: a request made by the bridge's background thread leaves the
\* connection of the module's messenger, the one the main messaging loop
\* set up and uses, as it was
C13_BridgeLeavesConnection ==
    (last.op = "request_sent" /\ req.pc = "waiting" /\ req.owner = "bridge") =>
        is_connected = last.connectedBefore

\* C11: a request to POST /send-notification or POST /broadcast whose body
\* has what the endpoint requires is answered with success, the background
\* publish started (or, without the messaging module, the fallback taken)
C11_FireAndForgetSucceeds ==
    (http.pc = "done" /\ http.route \in {"send-notification", "broadcast"} /\ http.valid) =>
        /\ http.status = 200
        /\ http.started \/ http.body = "not available"

\* the call of a fire-and-forget endpoint that has just been answered had a
\* body without what the endpoint requires
BodyLacks(h) ==
    /\ h.pc = "done"
    /\ \/ h.route = "send-notification" /\ (h.data[1].user_id = "" \/ h.data[1].message = "")
       \/ h.route = "broadcast" /\ h.data[1].message = ""

\* C24: POST /send-notification without a user_id or a message and POST
\* /broadcast without a message are answered 400 and start no background
\* thread; the step that answers them publishes nothing and leaves the
\* messenger's connection, its subscriptions and the threads as they were
C24_RejectedStartsNothing ==
    /\ [](BodyLacks(http) => (http.status = 400 /\ ~http.started /\ bg.pc # "sending"))
    /\ [][ (http' # http /\ BodyLacks(http')) =>
              /\ is_connected' = is_connected
              /\ net' = net
              /\ subs' = subs
              /\ bg' = bg ]_vars

\* a request without a message has been rejected on a connected client with
\* a subscription
C24_Witness ==
    /\ BodyLacks(http)
    /\ http.route = "send-notification"
    /\ http.data[1].message = ""
    /\ http.status = 400
    /\ is_connected
    /\ subs # << >>

\* C22: when the background thread had ended with its result in the queue
\* before the join returned, request_user_info answers with success exactly
\* when the result is not empty and has no 'error' key, the success carrying
\* that very result; an empty reply and a reply with an 'error' key are
\* answered with status 500
C22_SuccessIffGoodResult ==
    (http.pc = "done" /\ http.joined = "finished") =>
        /\ (http.status = 200) <=> (bg.result \notin {"None", "{}", "err"})
        /\ (http.status = 200) => (http.body = bg.result /\ ~http.raised)
        /\ (bg.result \in {"{}", "err"}) => (http.status = 500 /\ ~http.raised)

\* the user service's answer has come back in time and has been handed on
C22_Witness ==
    /\ http.pc = "done"
    /\ http.joined = "finished"
    /\ http.status = 200
    /\ http.body = "d3"
    /\ bg.result = "d3"

\* the publish calls handle_user_created made while the wrapper ran
HandlerPublishes == SelectSeq(Delivery.handlerCalls, LAMBDA c : c.call = "publish")

\* C23: a user.created message that reaches handle_user_created makes the
\* handler publish once on notification.send and then once on email.send,
\* both without a reply subject, within the wrapper's run; the wrapper
\* itself publishes no reply, whether the message asked for one or not, and
\* raises nothing
C23_UserCreatedPublishes ==
    (last.op = "message_handler" /\ Delivery.msg.subject = "user.created" /\ Delivery.called) =>
        /\ Len(HandlerPublishes) = 2
        /\ HandlerPublishes[1].subject = "notification.send"
        /\ HandlerPublishes[2].subject = "email.send"
        /\ HandlerPublishes[1].reply = "" /\ HandlerPublishes[2].reply = ""
        /\ last.calls = << >>
        /\ Delivery.response = "None"
        /\ ~last.raised

\* a user.created message that asked for a reply has been handled, both
\* publishes accepted, the notification on its way to this service's own
\* notification.send subscription
C23_Witness ==
    /\ last.op = "message_handler"
    /\ Delivery.msg.subject = "user.created"
    /\ Delivery.msg.reply = "reply.to"
    /\ Delivery.called
    /\ HandlerPublishes[1].ok /\ HandlerPublishes[2].ok
    /\ net # << >>
    /\ net[Len(net)].subject = "notification.send"

\* the Sync Bridge at work, one invocation after the other, in a process
\* whose broker stays as it is: POST /send-notification with its thread and
\* GET /request-user-info with its thread, the user service answering
LoopNext ==
    \/ \E d \in NotificationBodies, i \in BOOLEAN : send_notification_endpoint(d, i)
    \/ send_async
    \/ \E u \in UserIds : request_user_info(u)
    \/ run_async
    \/ queue_put
    \/ join_return
    \/ check_result
    \/ request_reply
    \/ request_timeout
    \/ \E b \in UserServiceReplies : foreign_reply(b)
    \/ tick

LoopSpec == Init /\ [][LoopNext]_vars

\* C21: with the broker reachable, a publish or request made by a Sync
\* Bridge thread is handed to a connection that lives on that thread's own
\* event loop, never to one left marked as connected by an earlier
\* invocation
C21_ConnectionOnOwnLoop ==
    (brokerUp /\ last.caller = "thread" /\ last.op \in {"publish_message", "request_sent", "request_response"}) =>
        last.loop = "thread"

\* a bridge thread's call that connected on its own loop
C21_Witness ==
    /\ brokerUp
    /\ last.caller = "thread"
    /\ last.op = "publish_message"
    /\ Connected(last.calls)
    /\ last.loop = "thread"
    /\ nc_loop = "closed"

====
